---- MODULE Spec2Model ----
(***************************************************************************)
(* Dependency graph construction of src/main.py: the two metadata sources  *)
(* (fetch_package_local, fetch_package_remote), the depth-bounded,         *)
(* cycle-aware traversal (build_dependency_graph) and the reverse index    *)
(* (invert_graph, print_reverse_deps).                                     *)
(*                                                                         *)
(* Python strings are sequences of one-character strings, so that          *)
(* f"{name}@{version}" is a real concatenation and sorted() a real         *)
(* lexicographic order.  A Python dict is a sequence of <<key, value>>     *)
(* pairs with pairwise distinct keys, in insertion order.                  *)
(***************************************************************************)
EXTENDS Integers, Sequences, FiniteSets, TLC

VARIABLES
    max_depth,        \* config["max_depth"]
    mode,             \* config["repo_mode"]
    repo_file,        \* what is found at config["repository_url"] on disk
    repo_data,        \* content of the snapshot file / of the registry
    graph,            \* build_dependency_graph: graph
    stack,            \* build_dependency_graph: stack (top is the last element)
    visited_global,   \* build_dependency_graph: visited_global
    pc,               \* "loop" (in the while loop), "done" (returned), "aborted" (raised)
    stderr,           \* the lines printed to sys.stderr, in order
    file_reads,       \* number of times the snapshot file was opened and parsed
    popped,           \* history: the key of every frame popped, in order
    trace,            \* history: one entry per iteration that reached the fetch
    inv,              \* print_reverse_deps: inv
    rev_out           \* what print_reverse_deps printed

vars == <<max_depth, mode, repo_file, repo_data, graph, stack, visited_global,
          pc, stderr, file_reads, popped, trace, inv, rev_out>>

build_vars == <<max_depth, mode, repo_file, repo_data, graph, stack,
                visited_global, pc, stderr, file_reads, popped, trace>>

-----------------------------------------------------------------------------
(* Bounds of the model *)

\* largest number of entries of one "dependencies" mapping
MaxDeps == 2

\* largest max_depth of a configuration
MaxDepthLimit == 3

-----------------------------------------------------------------------------
(* Strings *)

A == <<"A">>
B == <<"B">>
C == <<"C">>
D == <<"D">>
V1 == <<"1">>
V2 == <<"2">>

Names == {A, B, C}

\* code point of a character, for the order sorted() uses
Ord(c) ==
    CASE c = "1" -> 49
      [] c = "2" -> 50
      [] c = "9" -> 57
      [] c = "@" -> 64
      [] c = "A" -> 65
      [] c = "B" -> 66
      [] c = "C" -> 67
      [] c = "D" -> 68
      [] c = "Z" -> 90

RECURSIVE StrLess(_, _)
\* s < t for Python strings
StrLess(s, t) ==
    IF t = <<>> THEN FALSE
    ELSE IF s = <<>> THEN TRUE
    ELSE IF Ord(Head(s)) # Ord(Head(t)) THEN Ord(Head(s)) < Ord(Head(t))
    ELSE StrLess(Tail(s), Tail(t))

RECURSIVE InsertSorted(_, _)
InsertSorted(x, s) ==
    IF s = <<>> THEN <<x>>
    ELSE IF StrLess(x, Head(s)) THEN <<x>> \o s
    ELSE <<Head(s)>> \o InsertSorted(x, Tail(s))

RECURSIVE sorted(_)
\* sorted(list of str); stable
sorted(s) ==
    IF s = <<>> THEN <<>>
    ELSE InsertSorted(s[Len(s)], sorted(SubSeq(s, 1, Len(s) - 1)))

Range(s) == {s[i] : i \in DOMAIN s}

\* f"{name}@{version}"
node_key(name, version) == name \o <<"@">> \o version

-----------------------------------------------------------------------------
(* Python dict as an insertion-ordered sequence of <<key, value>> *)

DictKeys(d) == {d[i][1] : i \in DOMAIN d}

DictGet(d, k) == d[CHOOSE i \in DOMAIN d : d[i][1] = k][2]

\* d[k] = v
DictSet(d, k, v) ==
    IF k \in DictKeys(d)
    THEN [i \in DOMAIN d |-> IF d[i][1] = k THEN <<k, v>> ELSE d[i]]
    ELSE Append(d, <<k, v>>)

-----------------------------------------------------------------------------
(* The data source *)

\* config["package_name"], config["package_version"]
start_name == A
start_version == V1

\* the keys a snapshot file or the registry may hold
SnapshotKeys == {node_key(A, V1), node_key(B, V1), node_key(C, V1)}

\* the (name, version) pairs a "dependencies" mapping may hold; B@2 is
\* declared by some packages and held by no source
DepSpecs == {<<A, V1>>, <<B, V1>>, <<B, V2>>, <<C, V1>>}

\* "dependencies" objects: name -> version, at most MaxDeps entries, in file order
DepMaps ==
    {m \in UNION {[1..n -> DepSpecs] : n \in 0..MaxDeps} :
        \A i, j \in DOMAIN m : i # j => m[i][1] # m[j][1]}

\* a JSON value stored under one key: an object with a "dependencies"
\* mapping, an object without that field, an object whose "dependencies" is
\* not an object (a list, a string, null), or a value that is not an object
ObjectRecords ==
    {[is_object |-> TRUE, has_deps |-> TRUE, deps_is_map |-> TRUE, deps |-> m] : m \in DepMaps}
    \cup {[is_object |-> TRUE, has_deps |-> FALSE, deps_is_map |-> FALSE, deps |-> <<>>]}

MisshapenRecords ==
    {[is_object |-> TRUE, has_deps |-> TRUE, deps_is_map |-> FALSE, deps |-> <<>>],
     [is_object |-> FALSE, has_deps |-> FALSE, deps_is_map |-> FALSE, deps |-> <<>>]}

Repos(records) == UNION {[S -> records] : S \in SUBSET SnapshotKeys}

\* fetch_package_remote: an HTTP, network or JSON error becomes RuntimeError;
\* otherwise whatever JSON the registry answered is returned.  The registry
\* answers an error exactly for the keys it does not hold: a build asks for
\* each key at most once, so a transient failure is the same as a missing key.
fetch_package_remote(package_name, version) ==
    LET key == node_key(package_name, version) IN
    IF key \notin DOMAIN repo_data
    THEN [ok |-> FALSE, err |-> "http", reads |-> 0]
    ELSE [ok |-> TRUE, data |-> repo_data[key], reads |-> 0]

\* fetch_package_local: checks and parses the file on every call
fetch_package_local(package_name, version) ==
    LET key == node_key(package_name, version) IN
    IF repo_file = "missing"
    THEN [ok |-> FALSE, err |-> "file_not_found", reads |-> 0]
    ELSE IF repo_file = "unparsable"
    THEN [ok |-> FALSE, err |-> "file_read_error", reads |-> 1]
    ELSE IF key \notin DOMAIN repo_data
    THEN [ok |-> FALSE, err |-> "absent", reads |-> 1]
    ELSE [ok |-> TRUE, data |-> repo_data[key], reads |-> 1]

\* pkg_data.get("dependencies", {}): AttributeError when pkg_data is no dict
get_dependencies(pkg_data) ==
    IF ~pkg_data.is_object
    THEN [raised |-> TRUE, is_map |-> FALSE, items |-> <<>>]
    ELSE IF ~pkg_data.has_deps
    THEN [raised |-> FALSE, is_map |-> TRUE, items |-> <<>>]
    ELSE [raised |-> FALSE, is_map |-> pkg_data.deps_is_map, items |-> pkg_data.deps]

-----------------------------------------------------------------------------
(* build_dependency_graph *)

\* faulty variant: every frame is pushed with depth 0
Frame_depth_zero(name, version, depth, path) ==
    [name |-> name, version |-> version, depth |-> 0, path |-> path]

\* faulty variant: a frame carries its own name only, not the ancestors'
Frame_path_reset(name, version, depth, path) ==
    [name |-> name, version |-> version, depth |-> depth, path |-> <<name>>]

Frame(name, version, depth, path) ==
    [name |-> name, version |-> version, depth |-> depth, path |-> path]

\* faulty variant: the start frame is pushed with an empty path
InitialStack_empty_path == <<Frame(start_name, start_version, 0, <<>>)>>

\* stack = [(start_name, start_version, 0, [start_name])]
InitialStack == <<Frame(start_name, start_version, 0, <<start_name>>)>>

\* faulty variant: stack.pop(0), the oldest frame is taken
Pop_first(s) == [frame |-> s[1], rest |-> Tail(s)]

\* faulty variant: stack[-1], the frame is read and left on the stack
Pop_peek(s) == [frame |-> s[Len(s)], rest |-> s]

\* stack.pop()
Pop(s) == [frame |-> s[Len(s)], rest |-> SubSeq(s, 1, Len(s) - 1)]

\* faulty variant: the start key counts as visited from the beginning
is_visited_start_marked(current_key, visited) ==
    current_key \in visited \/ current_key = node_key(A, V1)

\* faulty variant: the visited check is lost
is_visited_never(current_key, visited) == FALSE

\* current_key in visited_global
is_visited(current_key, visited) == current_key \in visited

\* the try block: the source is chosen by mode
fetch(name, version) ==
    IF mode = "remote" THEN fetch_package_remote(name, version)
    ELSE fetch_package_local(name, version)

\* faulty variant: the depth check is lost
depth_exhausted_never(depth) == FALSE

\* faulty variant: depth > max_depth, one level too deep
depth_exhausted_late(depth) == depth > max_depth

\* depth >= max_depth
depth_exhausted(depth) == depth >= max_depth

\* faulty variant: the cycle check is lost
in_path_never(dep_name, path) == FALSE

\* faulty variant: only the package itself is compared, not its ancestors
in_path_self_only(dep_name, path) == dep_name = path[Len(path)]

\* dep_name in path
in_path(dep_name, path) == dep_name \in Range(path)

SkipWarning(current_key, err) ==
    [kind |-> "skip", key |-> current_key, reason |-> err, chain |-> <<>>]

CycleWarning(path, dep_name) ==
    [kind |-> "cycle", key |-> <<>>, reason |-> "", chain |-> path \o <<dep_name>>]

RECURSIVE for_deps(_, _, _, _)
\* the for loop over deps.items(): acc.stack and acc.stderr are the stack
\* and the diagnostic stream, acc.pushed records the frames this loop pushed
for_deps(deps, depth, path, acc) ==
    IF deps = <<>> THEN acc
    ELSE LET dep_name == Head(deps)[1]
             dep_version == Head(deps)[2]
         IN IF in_path(dep_name, path)
            THEN for_deps(Tail(deps), depth, path,
                     [acc EXCEPT !.stderr = Append(@, CycleWarning(path, dep_name))])
            ELSE LET fr == Frame(dep_name, dep_version, depth + 1, path \o <<dep_name>>)
                 IN for_deps(Tail(deps), depth, path,
                        [acc EXCEPT !.stack = Append(@, fr),
                                    !.pushed = Append(@, fr)])

\* history of one iteration: the frame, whether fetch_package_* returned,
\* how the iteration ended ("failed": RuntimeError caught, "raised": another
\* exception left build, "recorded": depth limit, "expanded": for loop ran)
\* and the frames it pushed
TraceEntry(fr, fetch_ok, outcome, pushed) ==
    [name |-> fr.name, version |-> fr.version, depth |-> fr.depth, path |-> fr.path,
     fetch_ok |-> fetch_ok, outcome |-> outcome, pushed |-> pushed]

\* faulty variant: the edges back to the package's own name are left out
graph_entry_without_cycles(g, name, version, items) ==
    LET NotSelf(d) == d[1] # name
    IN DictSet(g, node_key(name, version), SelectSeq(items, NotSelf))

\* faulty variant: graph[name] = ..., the version is dropped from the key
graph_entry_by_name(g, name, version, items) == DictSet(g, name, items)

\* graph[current_key] = [(dep_name, dep_version) for ... in deps.items()]
graph_entry(g, name, version, items) == DictSet(g, node_key(name, version), items)

\* faulty variant: break instead of continue, the frames left are dropped
break_after_error(rest) == <<>>

\* except RuntimeError: print(...); continue -- the loop goes on with the
\* frames that are left
continue_after_error(rest) == rest

\* one iteration of the while loop
build_iteration ==
    /\ pc = "loop"
    /\ stack # <<>>
    /\ LET p == Pop(stack)
           fr == p.frame
           current_key == node_key(fr.name, fr.version)
       IN /\ popped' = Append(popped, current_key)
          /\ IF is_visited(current_key, visited_global)
             THEN /\ stack' = p.rest
                  /\ UNCHANGED <<visited_global, graph, pc, stderr, file_reads, trace>>
             ELSE LET r == fetch(fr.name, fr.version) IN
                  /\ visited_global' = visited_global \cup {current_key}
                  /\ file_reads' = file_reads + r.reads
                  /\ IF ~r.ok
                     THEN /\ stderr' = Append(stderr, SkipWarning(current_key, r.err))
                          /\ stack' = continue_after_error(p.rest)
                          /\ trace' = Append(trace, TraceEntry(fr, FALSE, "failed", <<>>))
                          /\ UNCHANGED <<graph, pc>>
                     ELSE LET deps == get_dependencies(r.data) IN
                          IF deps.raised \/ ~deps.is_map
                          THEN \* AttributeError leaves build_dependency_graph
                               /\ pc' = "aborted"
                               /\ stack' = p.rest
                               /\ trace' = Append(trace, TraceEntry(fr, TRUE, "raised", <<>>))
                               /\ UNCHANGED <<graph, stderr>>
                          ELSE /\ graph' = graph_entry(graph, fr.name, fr.version, deps.items)
                               /\ pc' = pc
                               /\ IF depth_exhausted(fr.depth)
                                  THEN /\ stack' = p.rest
                                       /\ trace' = Append(trace,
                                              TraceEntry(fr, TRUE, "recorded", <<>>))
                                       /\ UNCHANGED stderr
                                  ELSE LET acc == for_deps(deps.items, fr.depth, fr.path,
                                                      [stack |-> p.rest, stderr |-> stderr,
                                                       pushed |-> <<>>])
                                       IN /\ stack' = acc.stack
                                          /\ stderr' = acc.stderr
                                          /\ trace' = Append(trace,
                                                 TraceEntry(fr, TRUE, "expanded", acc.pushed))
    /\ UNCHANGED <<max_depth, mode, repo_file, repo_data, inv, rev_out>>

\* the while condition is false: return graph
build_return ==
    /\ pc = "loop"
    /\ stack = <<>>
    /\ pc' = "done"
    /\ UNCHANGED <<max_depth, mode, repo_file, repo_data, graph, stack, visited_global,
                   stderr, file_reads, popped, trace, inv, rev_out>>

\* the source a configuration selects: a snapshot file that is readable,
\* missing or not JSON, or the registry (repository_url is then no file)
Sources == {<<"local", "ok">>, <<"local", "missing">>, <<"local", "unparsable">>,
            <<"remote", "missing">>}

NoOutput == [status |-> "none", target |-> <<>>, dependers |-> <<>>]

\* a validated configuration (validate_config: max_depth >= 0, repo_mode in
\* ALLOWED_REPO_MODES) and the first three statements of build_dependency_graph
InitWith(records) ==
    /\ max_depth \in 0..MaxDepthLimit
    /\ \E src \in Sources : mode = src[1] /\ repo_file = src[2]
    /\ repo_data \in (IF mode = "local" /\ repo_file # "ok"
                      THEN {<<>>} ELSE Repos(records))
    /\ graph = <<>>
    /\ stack = InitialStack
    /\ visited_global = {}
    /\ pc = "loop"
    /\ stderr = <<>>
    /\ file_reads = 0
    /\ popped = <<>>
    /\ trace = <<>>
    /\ inv = <<>>
    /\ rev_out = NoOutput

Init == InitWith(ObjectRecords \cup MisshapenRecords)

Next == build_iteration \/ build_return

Spec == Init /\ [][Next]_vars

\* the sources that honour the documented record shape: every value an
\* object with an optional "dependencies" mapping
InitShaped == InitWith(ObjectRecords)

ShapedSpec == InitShaped /\ [][Next]_vars

\* sources whose declarations form no cycle by name: four packages, each
\* declaring only packages later in the order A, B, C, D; any of them may
\* be missing from the source
DeepOrder == <<A, B, C, D>>

DeepKeys == {node_key(DeepOrder[i], V1) : i \in DOMAIN DeepOrder}

DeepMaps(i) ==
    {m \in UNION {[1..n -> {<<DeepOrder[j], V1>> : j \in (i + 1)..Len(DeepOrder)}] :
                     n \in 0..MaxDeps} :
        \A j, k \in DOMAIN m : j # k => m[j][1] # m[k][1]}

DeepRecords(i) ==
    {[is_object |-> TRUE, has_deps |-> TRUE, deps_is_map |-> TRUE, deps |-> m] :
        m \in DeepMaps(i)}

InitDeep ==
    /\ max_depth \in 0..MaxDepthLimit
    /\ \E src \in {<<"local", "ok">>, <<"remote", "missing">>} :
          mode = src[1] /\ repo_file = src[2]
    /\ \E S \in SUBSET DeepKeys :
       \E a \in DeepRecords(1), b \in DeepRecords(2), c \in DeepRecords(3),
          d \in DeepRecords(4) :
          repo_data = [key \in S |->
             <<a, b, c, d>>[CHOOSE i \in DOMAIN DeepOrder : key = node_key(DeepOrder[i], V1)]]
    /\ graph = <<>>
    /\ stack = InitialStack
    /\ visited_global = {}
    /\ pc = "loop"
    /\ stderr = <<>>
    /\ file_reads = 0
    /\ popped = <<>>
    /\ trace = <<>>
    /\ inv = <<>>
    /\ rev_out = NoOutput

DeepSpec == InitDeep /\ [][Next]_vars

-----------------------------------------------------------------------------
(* invert_graph and print_reverse_deps *)

\* inv.setdefault(dep_key, []).append(pkg)
setdefault_append(d, dep_key, pkg) ==
    IF dep_key \in DictKeys(d)
    THEN [i \in DOMAIN d |-> IF d[i][1] = dep_key THEN <<dep_key, Append(d[i][2], pkg)>>
                                                  ELSE d[i]]
    ELSE Append(d, <<dep_key, <<pkg>>>>)

\* faulty variant: the index is keyed by the dependency's name alone
dep_key_name_only(dep) == dep[1]

\* dep_key = f"{dep_name}@{dep_ver}"
dep_key_of(dep) == node_key(dep[1], dep[2])

RECURSIVE invert_deps(_, _, _)
\* the inner loop: for dep_name, dep_ver in deps
invert_deps(pkg, deps, d) ==
    IF deps = <<>> THEN d
    ELSE invert_deps(pkg, Tail(deps), setdefault_append(d, dep_key_of(Head(deps)), pkg))

RECURSIVE invert_items(_, _)
\* the outer loop: for pkg, deps in graph.items()
invert_items(items, d) ==
    IF items = <<>> THEN d
    ELSE invert_items(Tail(items), invert_deps(Head(items)[1], Head(items)[2], d))

invert_graph(g) == invert_items(g, <<>>)

\* faulty variant: the target is looked for among the nodes of the graph
target_in_graph(i, target) == target \in DictKeys(graph)

\* target in inv
target_in(i, target) == target \in DictKeys(i)

\* the keys a reverse-dependency query may name: Z@9 is declared nowhere
Targets == SnapshotKeys \cup {node_key(B, V2), node_key(<<"Z">>, <<"9">>)}

\* print_reverse_deps(graph, target); inv[target] of a missing key is a KeyError
print_reverse_deps(target) ==
    /\ pc = "done"
    /\ rev_out.status = "none"
    /\ inv' = invert_graph(graph)
    /\ rev_out' =
         IF target_in(inv', target)
         THEN IF target \in DictKeys(inv')
              THEN [status |-> "found", target |-> target,
                    dependers |-> sorted(DictGet(inv', target))]
              ELSE [status |-> "error", target |-> target, dependers |-> <<>>]
         ELSE [status |-> "not_found", target |-> target, dependers |-> <<>>]
    /\ UNCHANGED build_vars

\* every graph of the type Dict[str, List[Tuple[str, str]]] over the keys and
\* dependency lists of the model, in every insertion order
Graphs ==
    {g \in UNION {[1..n -> SnapshotKeys \X DepMaps] : n \in 0..Cardinality(SnapshotKeys)} :
        \A i, j \in DOMAIN g : i # j => g[i][1] # g[j][1]}

\* main after build_dependency_graph has returned some graph
InitInv ==
    /\ graph \in Graphs
    /\ pc = "done"
    /\ max_depth = 0
    /\ mode = "local"
    /\ repo_file = "ok"
    /\ repo_data = <<>>
    /\ stack = <<>>
    /\ visited_global = {}
    /\ stderr = <<>>
    /\ file_reads = 0
    /\ popped = <<>>
    /\ trace = <<>>
    /\ inv = <<>>
    /\ rev_out = NoOutput

NextInv == \E target \in Targets : print_reverse_deps(target)

InvSpec == InitInv /\ [][NextInv]_vars

-----------------------------------------------------------------------------
(* Vocabulary of the properties *)

EntryKey(e) == node_key(e.name, e.version)

start_key == node_key(start_name, start_version)

\* the keys whose fetch was attempted, and those whose fetch returned data
Fetched == {EntryKey(trace[i]) : i \in DOMAIN trace}
FetchedOk == {EntryKey(trace[i]) : i \in {j \in DOMAIN trace : trace[j].fetch_ok}}
FetchFailed == {EntryKey(trace[i]) : i \in {j \in DOMAIN trace : ~trace[j].fetch_ok}}

\* the source cannot answer for key: unreadable snapshot, or key not held
Unavailable(key) ==
    \/ mode = "local" /\ repo_file # "ok"
    \/ key \notin DOMAIN repo_data

\* the dependency specs the source declares for key, in its order
Declared(key) ==
    IF Unavailable(key) \/ repo_data[key] \in MisshapenRecords THEN <<>>
    ELSE repo_data[key].deps

DeclaredKeys(key) == {node_key(d[1], d[2]) : d \in Range(Declared(key))}

RECURSIVE ReachWithin(_)
\* the keys some declared path of at most n edges leads to from the start
ReachWithin(n) ==
    IF n = 0 THEN {start_key}
    ELSE LET R == ReachWithin(n - 1) IN R \cup UNION {DeclaredKeys(k) : k \in R}

IsCycleLine(w) == w.kind = "cycle"
IsSkipLine(w) == w.kind = "skip"

CycleLines == SelectSeq(stderr, IsCycleLine)
SkipLines == SelectSeq(stderr, IsSkipLine)

\* the warnings an expansion of entry e owes: one per declared dependency
\* whose name is on e's path, in declaration order
RECURSIVE OwedWarnings(_, _)
OwedWarnings(deps, path) ==
    IF deps = <<>> THEN <<>>
    ELSE (IF Head(deps)[1] \in Range(path)
          THEN <<[kind |-> "cycle", key |-> <<>>, reason |-> "",
                  chain |-> path \o <<Head(deps)[1]>>]>>
          ELSE <<>>) \o OwedWarnings(Tail(deps), path)

RECURSIVE OwedUpTo(_)
\* the cycle warnings owed by the first n iterations of the trace
OwedUpTo(n) ==
    IF n = 0 THEN <<>>
    ELSE OwedUpTo(n - 1) \o
         (IF trace[n].outcome = "expanded"
          THEN OwedWarnings(Declared(EntryKey(trace[n])), trace[n].path)
          ELSE <<>>)

-----------------------------------------------------------------------------
(* C1 *)

\* every key a frame can carry
AllKeys == {start_key} \cup {node_key(d[1], d[2]) : d \in DepSpecs}

\* the variant of the while loop: the number of keys not yet visited, then
\* the height of the stack, in lexicographic order
Unvisited == Cardinality(AllKeys \ visited_global)

VariantDecreases ==
    \/ Unvisited' < Unvisited
    \/ Unvisited' = Unvisited /\ Len(stack') < Len(stack)

-----------------------------------------------------------------------------
(* C2 *)

\* C2: no key is fetched twice during one build, however many frames reach
\* it, and once build has ended the visited set is as large as the set of
\* keys popped from the stack.
C2_NoRefetch ==
    /\ \A i, j \in DOMAIN trace : i # j => EntryKey(trace[i]) # EntryKey(trace[j])
    /\ pc # "loop" => Cardinality(visited_global) = Cardinality(Range(popped))

\* a returned build in which a key was popped twice (it was reached along
\* two paths) and three keys were visited
C2_Witness ==
    /\ pc = "done"
    /\ Len(popped) > Cardinality(Range(popped))
    /\ Cardinality(visited_global) >= 3

-----------------------------------------------------------------------------
(* C3 *)

\* C3: while build runs and in the graph it returns, the keys of the graph
\* are exactly the keys whose fetch has succeeded; a key whose fetch failed
\* is never a key of the graph.
C3_KeysAreFetched ==
    /\ pc # "aborted" => DictKeys(graph) = FetchedOk
    /\ DictKeys(graph) \cap FetchFailed = {}

\* a returned graph with two keys, built while another fetch failed
C3_Witness ==
    /\ pc = "done"
    /\ Len(graph) >= 2
    /\ FetchFailed # {}

-----------------------------------------------------------------------------
(* C4 *)

\* C4: an iteration at depth >= max_depth pushes no frame; no key that
\* declared paths reach only with more than max_depth edges is ever
\* expanded; and every graph entry holds all the edges its package declares,
\* those to packages that were never expanded included.
C4_DepthBound ==
    /\ \A i \in DOMAIN trace :
          /\ trace[i].depth >= max_depth =>
                trace[i].pushed = <<>> /\ trace[i].outcome # "expanded"
          /\ trace[i].outcome = "expanded" =>
                EntryKey(trace[i]) \in ReachWithin(max_depth)
    /\ \A i \in DOMAIN graph :
          DeclaredKeys(graph[i][1]) \subseteq {node_key(d[1], d[2]) : d \in Range(graph[i][2])}

\* a returned build that stopped at the depth limit in front of a package
\* with dependencies of its own: the edge to it is in the graph, the
\* package itself is beyond max_depth edges and was never fetched
C4_Witness ==
    /\ pc = "done"
    /\ max_depth >= 1
    /\ \E i \in DOMAIN trace :
          /\ trace[i].outcome = "recorded"
          /\ trace[i].depth = max_depth
          /\ \E k \in DeclaredKeys(EntryKey(trace[i])) :
                /\ k \notin ReachWithin(max_depth)
                /\ Declared(k) # <<>>
                /\ k \notin visited_global
                /\ k \in {node_key(d[1], d[2]) :
                            d \in Range(DictGet(graph, EntryKey(trace[i])))}

-----------------------------------------------------------------------------
(* C5 *)

\* C5: the cycle warnings of a build are, in order, exactly one warning for
\* each declared dependency of each expanded node whose name is on that
\* node's path; no node is expanded twice, so no edge is warned about twice,
\* and an edge whose target name is not on the path gets no warning.
C5_OneWarningPerCyclicEdge ==
    /\ CycleLines = OwedUpTo(Len(trace))
    /\ \A i, j \in DOMAIN trace :
          (i # j /\ trace[i].outcome = "expanded" /\ trace[j].outcome = "expanded")
             => EntryKey(trace[i]) # EntryKey(trace[j])

\* a returned build with two cycle warnings and an expanded node that also
\* has a dependency that is no cycle
C5_Witness ==
    /\ pc = "done"
    /\ Len(CycleLines) >= 2
    /\ \E i \in DOMAIN trace :
          /\ trace[i].outcome = "expanded"
          /\ trace[i].pushed # <<>>
          /\ \E d \in Range(Declared(EntryKey(trace[i]))) : d[1] \in Range(trace[i].path)

-----------------------------------------------------------------------------
(* C6 *)

\* reverseDependersOf: the dependers the index records for a target key
Dependers(i, target) == IF target \in DictKeys(i) THEN DictGet(i, target) ELSE <<>>

SpecKeys(deps) == {node_key(d[1], d[2]) : d \in Range(deps)}

\* C6: for every graph G, every node key p of G and every target key X, p is
\* among the dependers the inverted index records for X exactly when X is
\* the name@version of one of the dependency specs of G[p]; the index names
\* no depender that is not a node of G, and an empty graph gives an empty
\* index.
C6_InversionRoundTrip ==
    rev_out.status # "none" =>
        /\ \A i \in DOMAIN graph : \A X \in Targets :
              graph[i][1] \in Range(Dependers(inv, X)) <=> X \in SpecKeys(graph[i][2])
        /\ \A j \in DOMAIN inv :
              /\ inv[j][1] \in Targets
              /\ Range(inv[j][2]) \subseteq DictKeys(graph)
        /\ graph = <<>> => inv = <<>>

\* an index computed from a graph of three nodes, two of which declare the
\* queried target
C6_Witness ==
    /\ rev_out.status = "found"
    /\ Len(graph) = 3
    /\ Len(rev_out.dependers) >= 2
    /\ \E i \in DOMAIN graph : rev_out.target \notin SpecKeys(graph[i][2])

-----------------------------------------------------------------------------
(* C7 *)

\* the next iteration fetches the top frame and the source cannot answer
FetchIsFailing ==
    /\ pc = "loop"
    /\ stack # <<>>
    /\ node_key(stack[Len(stack)].name, stack[Len(stack)].version) \notin visited_global
    /\ Unavailable(node_key(stack[Len(stack)].name, stack[Len(stack)].version))

PushedKeys ==
    UNION {{node_key(trace[i].pushed[j].name, trace[i].pushed[j].version) :
              j \in DOMAIN trace[i].pushed} : i \in DOMAIN trace}

\* C7: an iteration whose fetch fails appends one warning naming the node,
\* writes nothing to the graph, pushes nothing and leaves the frames below
\* it as they were, with the loop still running; and when build returns
\* after such a failure, every frame that was pushed has been processed, the
\* failed nodes have no entry, and the graph holds the declared
\* dependencies of every node whose fetch succeeded.
C7_FetchFailureIsContained ==
    /\ [][FetchIsFailing =>
            /\ Len(stderr') = Len(stderr) + 1
            /\ SubSeq(stderr', 1, Len(stderr)) = stderr
            /\ stderr'[Len(stderr')].kind = "skip"
            /\ stderr'[Len(stderr')].key =
                  node_key(stack[Len(stack)].name, stack[Len(stack)].version)
            /\ graph' = graph
            /\ stack' = SubSeq(stack, 1, Len(stack) - 1)
            /\ pc' = "loop"]_vars
    /\ []((pc = "done" /\ FetchFailed # {}) =>
            /\ PushedKeys \subseteq Range(popped)
            /\ DictKeys(graph) \cap FetchFailed = {}
            /\ DictKeys(graph) = FetchedOk
            /\ \A i \in DOMAIN graph : graph[i][2] = Declared(graph[i][1]))

\* a returned build in which a fetch failed while a sibling frame was
\* waiting, and the sibling was fetched and recorded afterwards
C7_Witness ==
    /\ pc = "done"
    /\ \E i, j \in DOMAIN trace :
          /\ i < j
          /\ trace[i].outcome = "failed"
          /\ trace[i].depth = trace[j].depth
          /\ trace[i].depth >= 1
          /\ trace[j].fetch_ok
          /\ EntryKey(trace[j]) \in DictKeys(graph)
          /\ \E w \in Range(SkipLines) : w.key = EntryKey(trace[i])

-----------------------------------------------------------------------------
(* C8 *)

\* some node of the graph declares target as a dependency
IsDeclared(target) == \E i \in DOMAIN graph : target \in SpecKeys(graph[i][2])

\* C8: a reverse-dependency query never ends in an error, and for a target
\* that no node of the graph declares (every target, when the graph is
\* empty) it answers "not found" with no depender.
C8_AbsentTargetIsNotAnError ==
    /\ rev_out.status # "error"
    /\ (rev_out.status # "none" /\ ~IsDeclared(rev_out.target)) =>
          rev_out.status = "not_found" /\ rev_out.dependers = <<>>

\* a query for a key that is a node of the graph and that no node declares
C8_Witness ==
    /\ rev_out.status = "not_found"
    /\ rev_out.target \in DictKeys(graph)
    /\ Len(inv) >= 1
    /\ ~IsDeclared(rev_out.target)

-----------------------------------------------------------------------------
(* C9 *)

\* C9: with a snapshot file that is missing or unparsable, build fails
\* before any traversal step: no node is marked visited, no per-node
\* warning is printed and no graph is returned.
C9_SourceInitErrorIsFatal ==
    (mode = "local" /\ repo_file # "ok") =>
        /\ visited_global = {}
        /\ SkipLines = <<>>
        /\ pc # "done"

-----------------------------------------------------------------------------
(* C10 *)

\* C10: a node whose metadata has the wrong shape is skipped with a
\* warning naming it, gets no graph entry, and build goes on instead of
\* being left by an exception.
C10_WrongShapeIsSkipped ==
    \A i \in DOMAIN trace :
        (trace[i].fetch_ok /\ repo_data[EntryKey(trace[i])] \in MisshapenRecords) =>
            /\ pc # "aborted"
            /\ EntryKey(trace[i]) \notin DictKeys(graph)
            /\ \E w \in Range(SkipLines) : w.key = EntryKey(trace[i])

-----------------------------------------------------------------------------
(* C11 *)

\* C11: every graph entry is the complete sequence of dependency specs the
\* source reports for its key, in the source's order; the specs that were
\* not pushed because of the depth limit or of a cycle are in it too.
C11_EntriesAreComplete ==
    \A i \in DOMAIN graph : graph[i][2] = Declared(graph[i][1])

\* a returned graph with an entry recorded at the depth limit and an entry
\* of an expanded node that keeps a dependency suppressed as a cycle
C11_Witness ==
    /\ pc = "done"
    /\ \E i, j \in DOMAIN trace :
          /\ trace[i].outcome = "recorded"
          /\ Len(DictGet(graph, EntryKey(trace[i]))) = MaxDeps
          /\ trace[j].outcome = "expanded"
          /\ Len(trace[j].pushed) < Len(DictGet(graph, EntryKey(trace[j])))
          /\ Len(DictGet(graph, EntryKey(trace[j]))) = MaxDeps

-----------------------------------------------------------------------------
(* C12 *)

\* C12: in local mode the snapshot file is read once per build; the number
\* of reads does not grow with the number of nodes fetched.
C12_SnapshotReadOnce == mode = "local" => file_reads <= 1

-----------------------------------------------------------------------------
(* C13 *)

NoRepeat(path) == \A i, j \in DOMAIN path : i # j => path[i] # path[j]

\* the names of the strict ancestors of a frame: its path without the last name
Ancestors(path) == SubSeq(path, 1, Len(path) - 1)

\* C13: no frame on the stack and no fetched node has the name of one of its
\* ancestors, whatever the versions, and no name occurs twice on the
\* ancestor chain of a frame or of a fetched node.
C13_NoFrameRepeatsAnAncestor ==
    /\ \A i \in DOMAIN stack :
          /\ stack[i].name \notin Range(Ancestors(stack[i].path))
          /\ NoRepeat(stack[i].path)
    /\ \A i \in DOMAIN trace :
          /\ trace[i].name \notin Range(Ancestors(trace[i].path))
          /\ NoRepeat(trace[i].path)

\* a returned build in which C, below B@1, declares B@2: the name B is on
\* the path, the dependency was not pushed and B@2 was never fetched
C13_Witness ==
    /\ pc = "done"
    /\ node_key(B, V1) \in FetchedOk
    /\ node_key(B, V2) \notin Fetched
    /\ \E i \in DOMAIN trace :
          /\ trace[i].outcome = "expanded"
          /\ trace[i].name = C
          /\ B \in Range(trace[i].path)
          /\ <<B, V2>> \in Range(Declared(EntryKey(trace[i])))

-----------------------------------------------------------------------------
(* C14 *)

\* C14: a frame's path holds only the names of the strict ancestors of the
\* frame's node and never the node's own name: the start frame has an empty
\* path, the path is as long as the depth, and a pushed frame carries its
\* parent's path extended by the parent's name.
C14_PathExcludesOwnName ==
    /\ \A i \in DOMAIN stack :
          /\ stack[i].name \notin Range(stack[i].path)
          /\ Len(stack[i].path) = stack[i].depth
    /\ \A i \in DOMAIN trace : \A j \in DOMAIN trace[i].pushed :
          trace[i].pushed[j].path = trace[i].path \o <<trace[i].name>>

\* C14 as amended: a frame's path holds the names of the strict ancestors
\* of the frame's node followed by the node's own name: the start frame is
\* pushed with the path [start_name], each pushed dependency frame carries
\* the parent's path extended by the dependency's name, and a declared
\* dependency is pushed only when its name is neither the node's own name
\* nor the name of an ancestor.
C14_PathEndsWithOwnName ==
    /\ \A i \in DOMAIN stack :
          /\ stack[i].path # <<>>
          /\ stack[i].path[Len(stack[i].path)] = stack[i].name
    /\ trace # <<>> => trace[1].path = <<start_name>>
    /\ \A i \in DOMAIN trace :
          /\ trace[i].path[Len(trace[i].path)] = trace[i].name
          /\ \A j \in DOMAIN trace[i].pushed :
                /\ trace[i].pushed[j].path = trace[i].path \o <<trace[i].pushed[j].name>>
                /\ trace[i].pushed[j].name # trace[i].name
                /\ trace[i].pushed[j].name \notin Range(Ancestors(trace[i].path))

\* a returned build in which B@1, below A, declared B@2 and C: its own name
\* stopped B@2 from being pushed, C was pushed with the path A, B, C
C14_Witness ==
    /\ pc = "done"
    /\ node_key(B, V2) \notin Fetched
    /\ \E i \in DOMAIN trace :
          /\ trace[i].outcome = "expanded"
          /\ trace[i].name = B
          /\ trace[i].path = <<A, B>>
          /\ <<B, V2>> \in Range(Declared(EntryKey(trace[i])))
          /\ Len(trace[i].pushed) = 1
          /\ trace[i].pushed[1].path = <<A, B, C>>

-----------------------------------------------------------------------------
(* C15 *)

\* C15: the depth check comes before the cycle check: an iteration that
\* processes a frame with depth >= max_depth prints no cycle warning, also
\* when a declared dependency of the node names an ancestor.
C15_DepthCheckPrecedesCycleCheck ==
    [][(pc = "loop" /\ stack # <<>> /\ stack[Len(stack)].depth >= max_depth)
          => CycleLines' = CycleLines]_vars

\* the analogue of Scenario 1 (A -> B -> C -> A with max_depth = 2): three
\* keys in the returned graph, the deepest node recorded at the depth limit
\* with a dependency on an ancestor, and no cycle warning at all
C15_Witness ==
    /\ pc = "done"
    /\ max_depth = 2
    /\ Len(graph) = 3
    /\ CycleLines = <<>>
    /\ \E i \in DOMAIN trace :
          /\ trace[i].outcome = "recorded"
          /\ trace[i].depth = 2
          /\ \E d \in Range(DictGet(graph, EntryKey(trace[i]))) :
                d[1] \in Range(Ancestors(trace[i].path))

-----------------------------------------------------------------------------
(* C16 *)

\* C16: in every build, max_depth = 0 included, the start node is the first
\* key popped and the first key fetched, it is fetched in no later
\* iteration, and a build that returns has attempted it.
C16_StartAttemptedOnce ==
    /\ popped # <<>> =>
          /\ popped[1] = start_key
          /\ trace # <<>>
          /\ EntryKey(trace[1]) = start_key
    /\ \A i \in DOMAIN trace : i > 1 => EntryKey(trace[i]) # start_key
    /\ pc = "done" => start_key \in Fetched

\* a returned build in which an expanded package below the start declares
\* the start identity itself
C16_Witness ==
    /\ pc = "done"
    /\ Len(trace) >= 3
    /\ \E i \in DOMAIN trace :
          /\ i > 1
          /\ trace[i].outcome = "expanded"
          /\ <<start_name, start_version>> \in Range(Declared(EntryKey(trace[i])))

-----------------------------------------------------------------------------
(* C17 *)

TopKey == node_key(stack[Len(stack)].name, stack[Len(stack)].version)

\* the index of the iteration that fetched key
FetchIndex(key) == CHOOSE i \in DOMAIN trace : EntryKey(trace[i]) = key

\* C17: the stack is last-in-first-out.  Every iteration takes the top
\* frame and leaves the frames below it as they are; the frames an expansion
\* pushes go on top in declaration order, so the last declared dependency is
\* the next frame processed; the top frame is always the deepest, so a
\* subtree is finished before an earlier sibling is touched; and a frame
\* whose key is already visited is discarded without a fetch, a graph write,
\* a warning or a push.
C17_StackIsLifo ==
    /\ [][(pc = "loop" /\ stack # <<>>) =>
            /\ popped' = Append(popped, TopKey)
            /\ Len(stack') >= Len(stack) - 1
            /\ SubSeq(stack', 1, Len(stack) - 1) = SubSeq(stack, 1, Len(stack) - 1)
            /\ TopKey \in visited_global =>
                  /\ Len(stack') = Len(stack) - 1
                  /\ UNCHANGED <<graph, trace, file_reads, stderr, visited_global, pc>>
            /\ trace' # trace =>
                  /\ SubSeq(stack', Len(stack), Len(stack')) = trace'[Len(trace')].pushed
                  /\ \A j \in DOMAIN trace'[Len(trace')].pushed :
                        trace'[Len(trace')].pushed[j].depth = stack[Len(stack)].depth + 1]_vars
    /\ [](\A i, j \in DOMAIN stack : i < j => stack[i].depth <= stack[j].depth)
    /\ [](\A i \in DOMAIN trace :
            LET NotOnPath(d) == d[1] \notin Range(trace[i].path)
                due == SelectSeq(Declared(EntryKey(trace[i])), NotOnPath)
            IN trace[i].outcome = "expanded" =>
                  /\ Len(trace[i].pushed) = Len(due)
                  /\ \A j \in DOMAIN due :
                        /\ trace[i].pushed[j].name = due[j][1]
                        /\ trace[i].pushed[j].version = due[j][2])

\* a returned build in which an expansion pushed two frames, the one
\* declared last was fetched first, and a frame for an already visited key
\* was discarded
C17_Witness ==
    /\ pc = "done"
    /\ Len(popped) > Cardinality(Range(popped))
    /\ \E i \in DOMAIN trace :
          /\ Len(trace[i].pushed) = 2
          /\ LET k1 == node_key(trace[i].pushed[1].name, trace[i].pushed[1].version)
                 k2 == node_key(trace[i].pushed[2].name, trace[i].pushed[2].version)
             IN /\ k1 \in Fetched
                /\ k2 \in Fetched
                /\ FetchIndex(k2) < FetchIndex(k1)

-----------------------------------------------------------------------------
(* C19 *)

GraphTargets(key) == {node_key(d[1], d[2]) : d \in Range(DictGet(graph, key))}

RECURSIVE ReachViaKeys(_)
\* the keys a path of at most n recorded edges leads to from the start, all
\* of whose nodes but the last are keys of the graph
ReachViaKeys(n) ==
    IF n = 0 THEN {start_key}
    ELSE LET R == ReachViaKeys(n - 1)
         IN R \cup UNION {GraphTargets(k) : k \in R \cap DictKeys(graph)}

\* C19: every key of the graph is the start identity or is reached from it
\* by at most max_depth declared edges whose intermediate nodes are keys of
\* the graph; the edges recorded are the ones the source declares.
C19_KeysAreSound ==
    /\ DictKeys(graph) \subseteq ReachViaKeys(max_depth)
    /\ DictKeys(graph) \subseteq ReachWithin(max_depth)

\* a returned build with a key one edge below the start, and a declared
\* identity two edges below the start that is held by the source and is
\* no key
C19_Witness ==
    /\ pc = "done"
    /\ max_depth = 1
    /\ \E i \in DOMAIN trace : trace[i].depth = 1 /\ EntryKey(trace[i]) \in DictKeys(graph)
    /\ \E k \in ReachWithin(2) : ~Unavailable(k) /\ k \notin DictKeys(graph)

-----------------------------------------------------------------------------
(* C20 *)

\* the package names the source knows of: the start name and every declared name
DeclaredNames ==
    {start_name} \cup UNION {{d[1] : d \in Range(Declared(k))} : k \in DOMAIN repo_data}

\* C20: every frame on the stack has 0 <= depth <= max_depth, a path of
\* depth + 1 names that ends with the frame's own name and repeats no name,
\* and so a depth of at most the number of distinct package names minus one.
C20_FrameInvariant ==
    \A i \in DOMAIN stack :
        /\ 0 <= stack[i].depth
        /\ stack[i].depth <= max_depth
        /\ Len(stack[i].path) = stack[i].depth + 1
        /\ stack[i].path[Len(stack[i].path)] = stack[i].name
        /\ \A m, n \in DOMAIN stack[i].path :
              m # n => stack[i].path[m] # stack[i].path[n]
        /\ stack[i].depth <= Cardinality(DeclaredNames) - 1

\* a frame as deep as three package names allow waits on the stack while
\* max_depth would allow one level more
C20_Witness ==
    /\ pc = "loop"
    /\ max_depth = 3
    /\ Cardinality(DeclaredNames) = 3
    /\ \E i \in DOMAIN stack : stack[i].depth = 2 /\ Len(stack[i].path) = 3

-----------------------------------------------------------------------------
(* C18 *)

\* the names the packages called n declare, whatever their version
NameSucc(n) ==
    UNION {{d[1] : d \in Range(Declared(node_key(n, v)))} : v \in {V1, V2}}

RECURSIVE NameReach(_, _)
\* the names some chain of 1..k declarations leads to from the name n
NameReach(n, k) ==
    IF k = 1 THEN NameSucc(n)
    ELSE LET R == NameReach(n, k - 1) IN R \cup UNION {NameSucc(m) : m \in R}

NoNameCycle ==
    \A n \in Range(DeepOrder) : n \notin NameReach(n, Len(DeepOrder))

\* C18: when every fetch succeeds and the declarations contain no cycle by
\* name, every identity a declared path of at most max_depth edges leads to
\* from the start is a key of the returned graph, whatever the order in
\* which siblings are declared.
C18_DepthComplete ==
    (/\ pc = "done"
     /\ \A k \in ReachWithin(max_depth) : ~Unavailable(k)
     /\ NoNameCycle)
        => ReachWithin(max_depth) \subseteq DictKeys(graph)

====
